---- MODULE Spec2Model ----
(***************************************************************************)
(* Failstats Go client: the ban-reporting cycle of src/main.go (the        *)
(* program starting at line 147): main's scheduler loop, processBans,      *)
(* findLogFiles, lastRun and saveRun, together with the environment they   *)
(* run in (the fail2ban log directory, log rotation, the lastrun file and  *)
(* the collector answering the POST).                                      *)
(*                                                                         *)
(* Time is counted in milliseconds.  A log line's timestamp text           *)
(* "Y-M-D h:m:s,fff" is the record [sec, ms]; the lastrun file's RFC3339   *)
(* text is the sequence <<sec>>; an emitted timestamp is [sec, zone].      *)
(***************************************************************************)
EXTENDS Integers, Sequences, FiniteSets, TLC

\* ---------------------------------------------------------------- bounds
\* lines fail2ban writes in one behaviour
MaxLines == 2
\* log rotations in one behaviour
MaxRotations == 1
\* environment faults (crash, I/O error, transport failure) in one behaviour
MaxFaults == 1

\* --------------------------------------------------------- input domains
Bases == {"fail2ban.log", "f2b.log"}
\* sequential suffix (compressed from the second rotation on, or at once) and
\* date suffix
Conventions == {"seq", "seqgz", "date"}
ServiceNames == {"sshd", "jupyter"}
\* timestamps fail2ban writes: two in one second, one in the next
LogTimes == {[sec |-> 5, ms |-> 0], [sec |-> 5, ms |-> 500], [sec |-> 6, ms |-> 0]}
\* the same with a timestamp in the second before
ScanTimes == LogTimes \cup {[sec |-> 4, ms |-> 0]}
Offsets == {-2, 0, 3}
AckLines == {"1", "0"}
Policies == [reportServices : {0, 1}, dontReport : {<< >>, <<"jupyter">>}]
Config(logName, policy) ==
    [logName |-> logName, reportServices |-> policy.reportServices,
     dontReport |-> policy.dontReport]

\* ------------------------------------------------------------- time texts
MsPerSec == 1000

\* time.Date(1, 1, 1, 1, 1, 1, 1, time.UTC): the origin of the model's clock.
\* (Its extra nanosecond is below the model's unit: a log time in that same
\* second is dropped by the second-precision comparison either way.)
DefaultTime == 0

\* time.Parse("2006-01-02 15:04:05.000", dateStr): exactly three fraction digits
ParseLocal(txt) ==
    IF txt.ms \in 0..(MsPerSec - 1)
    THEN [ok |-> TRUE, t |-> txt.sec * MsPerSec + txt.ms]
    ELSE [ok |-> FALSE, t |-> 0]

\* t.Format("2006-01-02 15:04:05"): the fraction is dropped
FormatSec(t) == t \div MsPerSec

\* utcDate.Format("2006-01-02 15:04:05") + " UTC+0000"
FormatUTC(t) == [sec |-> FormatSec(t), zone |-> "UTC+0000"]

\* timeStr.Format(time.RFC3339): second precision.  The text is the one-field
\* sequence <<seconds>>; << >> is the empty text.
FormatRFC3339(t) == <<t \div MsPerSec>>

\* time.Parse(time.RFC3339, timeStr): the empty text does not parse, nor does
\* a text with anything after the time
ParseRFC3339(txt) ==
    IF Len(txt) # 1 THEN [ok |-> FALSE, t |-> 0]
    ELSE [ok |-> TRUE, t |-> txt[1] * MsPerSec]

\* ------------------------------------------------------------- file names
\* A file name is base ++ kind ++ digits(n) (++ ".gz"): kind "" is the bare
\* base name, "-" a date suffix, "." a sequential suffix.
Name(base, kind, n, gz) == [base |-> base, kind |-> kind, n |-> n, gz |-> gz]
BareName(base) == Name(base, "", 0, FALSE)

\* the literal "fail2ban.log" of findLogFiles
Fail2banLog == BareName("fail2ban.log")

\* strings.Contains(f.Name(), "-")
HasDash(name) == name.kind = "-"

\* file[len(file)-3:] == ".gz"
IsGz(name) == name.gz

\* re.Match: the configured name, unanchored, against a file name
ReMatch(logName, name) == name.base = logName

RECURSIVE Digits(_)
Digits(n) == IF n < 10 THEN <<n>> ELSE Append(Digits(n \div 10), n % 10)

RECURSIVE LexLess(_, _)
LexLess(a, b) ==
    IF a = << >> THEN b # << >>
    ELSE IF b = << >> THEN FALSE
    ELSE IF Head(a) # Head(b) THEN Head(a) < Head(b)
    ELSE LexLess(Tail(a), Tail(b))

KindRank(kind) == CASE kind = "" -> 0 [] kind = "-" -> 1 [] kind = "." -> 2
BaseRank(base) == CASE base = "f2b.log" -> 0 [] base = "fail2ban.log" -> 1

\* byte order of two file names
NameLess(a, b) ==
    IF a.base # b.base THEN BaseRank(a.base) < BaseRank(b.base)
    ELSE IF a.kind # b.kind THEN KindRank(a.kind) < KindRank(b.kind)
    ELSE LexLess(Digits(a.n), Digits(b.n))

\* ioutil.ReadDir: the entries sorted by file name
RECURSIVE ReadDir(_)
ReadDir(names) ==
    IF names = {} THEN << >>
    ELSE LET first == CHOOSE x \in names : \A y \in names \ {x} : NameLess(x, y)
         IN  <<first>> \o ReadDir(names \ {first})

\* --------------------------------------------------------- pure functions
\* stringInStringSlice with a loop that stops one element early
stringInAllButLast(str, list) == \E i \in 1..(Len(list) - 1) : list[i] = str

\* stringInStringSlice
RECURSIVE stringInStringSlice(_, _)
stringInStringSlice(str, list) ==
    IF list = << >> THEN FALSE
    ELSE IF Head(list) = str THEN TRUE
    ELSE stringInStringSlice(str, Tail(list))

\* reverseStrSlice
RECURSIVE reverseStrSlice(_)
reverseStrSlice(data) ==
    IF data = << >> THEN << >>
    ELSE Append(reverseStrSlice(Tail(data)), Head(data))

\* the matched names in listing order (findLogFiles' first loop)
MatchedNames(listing, logName) ==
    SelectSeq(listing, LAMBDA f : ReMatch(logName, f))

\* logRotate after the first loop
LogRotate(matched) ==
    IF \E i \in 1..Len(matched) : HasDash(matched[i]) THEN "date" ELSE "normal"

\* findLogFiles without its len(logFiles) == 0 check
findLogFilesNoEmptyCheck(listing, logName) ==
    LET logFiles == MatchedNames(listing, logName) IN
    IF LogRotate(logFiles) = "normal" THEN [err |-> FALSE, files |-> logFiles]
    ELSE [err |-> FALSE,
          files |-> reverseStrSlice(Append(Tail(logFiles), Fail2banLog))]

\* findLogFiles on a readable directory: [err, files]
findLogFiles(listing, logName) ==
    LET logFiles == MatchedNames(listing, logName) IN
    IF Len(logFiles) = 0 THEN [err |-> TRUE, files |-> << >>]
    ELSE IF LogRotate(logFiles) = "normal" THEN [err |-> FALSE, files |-> logFiles]
    ELSE [err |-> FALSE,
          files |-> reverseStrSlice(Append(Tail(logFiles), Fail2banLog))]

\* ------------------------------------------------------------------ state
VARIABLES
    \* environment
    site,         \* the host: [base, rotation, jails, zones, times, configs] (never changes)
    dir,          \* log directory: file name -> [lines, rd, keep]
    dirOK,        \* the log directory can be listed
    wmFile,       \* /var/lib/failstats/lastrun: [kind, text]
    written,      \* every line fail2ban has written, in order (ip = index)
    rotations,    \* rotations so far
    faults,       \* faults so far
    \* the process (main and the running processBans)
    pc,           \* position: off, wait, send, save, write, exit, down
    conf,         \* Configuration loaded at start
    lastRunTime,  \* processBans: lastRunTime
    offset,       \* processBans: offset (seconds)
    scan,         \* processBans: banDates, banIPs, services, current (+ files opened)
    \* history
    acked,        \* batches the collector answered "1", in order
    outcome,      \* outcome of the last cycle: none (running), NoNewEvents, Reported, Failed
    ackLine,      \* answer of the transport in this cycle: none, err, or the first line
    steps,        \* steps the current cycle has done
    wmBefore,     \* wmFile when the current cycle started
    resolved,     \* the last findLogFiles call: [access, listing, err, files]
    stable        \* the log directory is unchanged since the last cycle started

envVars  == <<site, dir, dirOK, written, rotations>>
procVars == <<conf, lastRunTime, offset, scan>>
histVars == <<acked, outcome, ackLine, steps, wmBefore, resolved, stable>>
vars == <<site, dir, dirOK, wmFile, written, rotations, faults,
          pc, conf, lastRunTime, offset, scan,
          acked, outcome, ackLine, steps, wmBefore, resolved, stable>>

Absent == [kind |-> "absent", text |-> << >>]
IsDirectory == [kind |-> "dir", text |-> << >>]
File(text) == [kind |-> "file", text |-> text]

NewFile == [lines |-> << >>, rd |-> "ok", keep |-> 0]
NoScan == [banDates |-> << >>, banIPs |-> << >>, services |-> << >>,
           current |-> DefaultTime, lastFile |-> FALSE, err |-> FALSE,
           opened |-> << >>]
OtherLine == [kind |-> "other", date |-> [sec |-> 0, ms |-> 0], svc |-> "", ip |-> 0]
BanLine(date, svc, ip) == [kind |-> "ban", date |-> date, svc |-> svc, ip |-> ip]

NotResolved == [access |-> TRUE, listing |-> << >>, err |-> FALSE, files |-> << >>]

\* the state before the process is first started, on the host s, with f
\* faults already spent and the log directory d
InitIn(s, f, d) ==
    /\ site = s
    /\ dir = d
    /\ dirOK = TRUE
    /\ written = << >>
    /\ rotations = 0
    /\ faults = f
    /\ pc = "off"
    /\ conf = Config(s.base, [reportServices |-> 1, dontReport |-> << >>])
    /\ lastRunTime = DefaultTime
    /\ offset = 0
    /\ scan = NoScan
    /\ acked = << >>
    /\ outcome = "none"
    /\ ackLine = "none"
    /\ steps = {}
    /\ wmBefore = wmFile
    /\ resolved = NotResolved
    /\ stable = FALSE

\* the same with a log directory that holds the empty base file only
InitOn(s, f) == InitIn(s, f, BareName(s.base) :> NewFile)

\* a host in UTC with the default stream name, one jail, and the
\* configuration naming that stream
Init ==
    /\ wmFile = Absent
    /\ \E r \in {"seqgz", "date"} :
         InitOn([base |-> "fail2ban.log", rotation |-> r, jails |-> {"sshd"},
                 zones |-> {0}, times |-> LogTimes,
                 configs |-> {Config("fail2ban.log",
                                [reportServices |-> 1, dontReport |-> <<"jupyter">>])}],
                0)

\* hosts with either stream name and any rotation convention, configured
\* with either name; the only fault is the log directory becoming inaccessible
InitSites ==
    /\ wmFile = Absent
    /\ \E b \in Bases, r \in Conventions :
         InitOn([base |-> b, rotation |-> r, jails |-> {"sshd"}, zones |-> {0},
                 times |-> LogTimes,
                 configs |-> {Config(n, [reportServices |-> 1,
                                         dontReport |-> <<"jupyter">>]) : n \in Bases}],
                MaxFaults)

\* a host in any zone, with both jails, under every disclosure policy; no faults
InitNorm ==
    /\ wmFile = Absent
    /\ InitOn([base |-> "fail2ban.log", rotation |-> "seq", jails |-> ServiceNames,
               zones |-> Offsets, times |-> LogTimes,
               configs |-> {Config("fail2ban.log", pol) : pol \in Policies}],
              MaxFaults)

\* what the lastrun path may hold when the process is first started: nothing,
\* a directory, an empty file, a time followed by other text, a time
StoredFiles == {Absent, IsDirectory, File(<< >>), File(<<5, 5>>), File(<<5>>)}

\* a host as in Init with sequential rotation and any lastrun path; no faults
InitLoad ==
    /\ wmFile \in StoredFiles
    /\ InitOn([base |-> "fail2ban.log", rotation |-> "seq", jails |-> {"sshd"},
               zones |-> {0}, times |-> LogTimes,
               configs |-> {Config("fail2ban.log",
                              [reportServices |-> 1, dontReport |-> <<"jupyter">>])}],
              MaxFaults)

\* a host as in Init with sequential rotation, log times on both sides of a
\* stored last run; no faults
InitScan ==
    /\ wmFile \in {Absent, File(<<5>>)}
    /\ InitOn([base |-> "fail2ban.log", rotation |-> "seq", jails |-> {"sshd"},
               zones |-> {0}, times |-> ScanTimes,
               configs |-> {Config("fail2ban.log",
                              [reportServices |-> 1, dontReport |-> <<"jupyter">>])}],
              MaxFaults)

\* rotated files logrotate has kept so far when the process is first started
KeptRotations == {0, 9}

\* the log directory after k sequential rotations: the base file, base.1 and
\* the compressed base.2.gz .. base.k.gz, all without lines
KeptDir(base, k) ==
    [n \in {BareName(base)} \cup {Name(base, ".", i, i > 1) : i \in 1..k} |-> NewFile]

\* a host as in Init with sequential rotation (compressed from the second
\* rotation on) that has kept rotated files; no faults
InitSeq ==
    /\ wmFile = Absent
    /\ \E k \in KeptRotations :
         InitIn([base |-> "fail2ban.log", rotation |-> "seq", jails |-> {"sshd"},
                 zones |-> {0}, times |-> LogTimes,
                 configs |-> {Config("fail2ban.log",
                                [reportServices |-> 1, dontReport |-> <<"jupyter">>])}],
                MaxFaults, KeptDir("fail2ban.log", k))

\* a host as in Init with sequential rotation, both jails and the second one
\* suppressed; no faults
InitBatch ==
    /\ wmFile = Absent
    /\ InitOn([base |-> "fail2ban.log", rotation |-> "seq", jails |-> ServiceNames,
               zones |-> {0}, times |-> LogTimes,
               configs |-> {Config("fail2ban.log",
                              [reportServices |-> 1, dontReport |-> <<"jupyter">>])}],
              MaxFaults)

\* ------------------------------------------------------------ environment
\* fail2ban appends a line to the base file: a ban, or a line the pattern
\* does not match
WriteLine ==
    /\ Len(written) < MaxLines
    /\ \E line \in {OtherLine} \cup
                   {BanLine(t, svc, Len(written) + 1) :
                        t \in site.times, svc \in site.jails} :
        /\ written' = Append(written, line)
        /\ dir' = [dir EXCEPT ![BareName(site.base)].lines = Append(@, line)]
    /\ stable' = FALSE
    /\ UNCHANGED <<site, dirOK, rotations, wmFile, faults, pc,
                   procVars, acked, outcome, ackLine, steps, wmBefore, resolved>>

\* fail2ban writes a ban line whose timestamp has a four-digit fraction
WriteBadLine ==
    /\ Len(written) < MaxLines
    /\ faults < MaxFaults
    /\ faults' = faults + 1
    /\ \E t \in site.times, svc \in site.jails :
        LET line == BanLine([sec |-> t.sec, ms |-> MsPerSec], svc, Len(written) + 1) IN
        /\ written' = Append(written, line)
        /\ dir' = [dir EXCEPT ![BareName(site.base)].lines = Append(@, line)]
    /\ stable' = FALSE
    /\ UNCHANGED <<site, dirOK, rotations, wmFile, pc,
                   procVars, acked, outcome, ackLine, steps, wmBefore, resolved>>

\* the name a rotated file gets
Rotated(name, convention, count) ==
    IF name.kind = "." THEN Name(name.base, ".", name.n + 1, TRUE)
    ELSE IF name.kind = "-" THEN name
    ELSE IF convention = "seq" THEN Name(name.base, ".", 1, FALSE)
    ELSE IF convention = "seqgz" THEN Name(name.base, ".", 1, TRUE)
    ELSE Name(name.base, "-", 20200500 + count, FALSE)

\* logrotate: the base file is renamed (sequential or date suffix) and a new
\* empty base file is created
Rotate ==
    /\ rotations < MaxRotations
    /\ rotations' = rotations + 1
    /\ LET To(m) == Rotated(m, site.rotation, rotations + 1) IN
       dir' = [n \in {To(m) : m \in DOMAIN dir} \cup {BareName(site.base)} |->
                 IF n = BareName(site.base) THEN NewFile
                 ELSE dir[CHOOSE m \in DOMAIN dir : To(m) = n]]
    /\ stable' = FALSE
    /\ UNCHANGED <<site, dirOK, written, wmFile, faults, pc,
                   procVars, acked, outcome, ackLine, steps, wmBefore, resolved>>

\* a log file becomes unreadable, or a compressed one corrupt (at its header,
\* or after the first keep lines)
Damage ==
    /\ faults < MaxFaults
    /\ faults' = faults + 1
    /\ \E name \in DOMAIN dir :
        \/ dir' = [dir EXCEPT ![name].rd = "noopen"]
        \/ /\ IsGz(name)
           /\ dir' = [dir EXCEPT ![name].rd = "badhdr"]
        \/ /\ IsGz(name)
           /\ \E k \in 0..(Len(dir[name].lines) - 1) :
                dir' = [dir EXCEPT ![name].rd = "cut", ![name].keep = k]
    /\ stable' = FALSE
    /\ UNCHANGED <<site, dirOK, written, rotations, wmFile, pc,
                   procVars, acked, outcome, ackLine, steps, wmBefore, resolved>>

\* the log directory becomes inaccessible
LockDir ==
    /\ dirOK
    /\ dirOK' = FALSE
    /\ stable' = FALSE
    /\ UNCHANGED <<site, dir, written, rotations, wmFile, faults, pc,
                   procVars, acked, outcome, ackLine, steps, wmBefore, resolved>>

\* ------------------------------------------------------------ processBans
\* the service field of one new record (lines 315-329)
ServiceField(raw, reportServices, dontReport) ==
    IF reportServices = 0 THEN "undisclosed"
    ELSE IF Len(dontReport) = 0 THEN raw
    ELSE IF stringInStringSlice(raw, dontReport) THEN "undisclosed"
    ELSE raw

\* the equality test at full precision (date.Equal)
SameInstantExact(lastRun, date) == lastRun = date

\* the equality test dropped
SameInstantNever(lastRun, date) == FALSE

\* the exact-equality test of line 305: both times formatted to the second
SameInstant(lastRun, date) == FormatSec(lastRun) = FormatSec(date)

\* the After test dropped
IsNewAlways(date, lastRun) == TRUE

\* date.After(lastRunTime)
IsNew(date, lastRun) == date > lastRun

\* lines 337-339
NextCurrent(current, date) == IF date > current THEN date ELSE current

\* the offset added instead of subtracted
ToUTCWrongSign(date, off) == date + off * MsPerSec

\* utcDate of line 311
ToUTC(date, off) == date - off * MsPerSec

\* the body of the line loop for one line (lines 293-340)
ScanLine(st, line, lastRun, off, cf) ==
    IF line.kind # "ban" THEN st
    ELSE LET p == ParseLocal(line.date) IN
         IF ~p.ok THEN [st EXCEPT !.err = TRUE]
         ELSE IF SameInstant(lastRun, p.t) THEN st
         ELSE LET st1 ==
                    IF IsNew(p.t, lastRun)
                    THEN [st EXCEPT
                            !.banDates = Append(@, FormatUTC(ToUTC(p.t, off))),
                            !.services = Append(@, ServiceField(line.svc,
                                             cf.reportServices, cf.dontReport)),
                            !.banIPs = Append(@, line.ip)]
                    ELSE [st EXCEPT !.lastFile = TRUE]
              IN  [st1 EXCEPT !.current = NextCurrent(@, p.t)]

\* for scanner.Scan() { ... }: a parse failure returns at once
RECURSIVE ScanLines(_, _, _, _, _)
ScanLines(st, lines, lastRun, off, cf) ==
    IF st.err \/ lines = << >> THEN st
    ELSE ScanLines(ScanLine(st, Head(lines), lastRun, off, cf),
                   Tail(lines), lastRun, off, cf)

\* what the scanner yields for a file: a compressed stream that breaks after
\* keep lines ends the loop there (scanner.Scan() returns false)
Readable(name, f) ==
    IF IsGz(name) /\ f.rd = "cut" THEN SubSeq(f.lines, 1, f.keep) ELSE f.lines

\* os.Open and gzip.NewReader (lines 266-288)
OpenFails(d, name) ==
    \/ name \notin DOMAIN d
    \/ d[name].rd = "noopen"
    \/ IsGz(name) /\ d[name].rd = "badhdr"

\* the break of lines 343-345
StopAfter(st) == st.lastFile

\* for _, file := range logFiles { ... } (lines 265-346)
RECURSIVE ScanFiles(_, _, _, _, _, _)
ScanFiles(st, files, d, lastRun, off, cf) ==
    IF st.err \/ files = << >> THEN st
    ELSE LET file == Head(files) IN
         IF OpenFails(d, file) THEN [st EXCEPT !.err = TRUE]
         ELSE LET st1 == ScanLines([st EXCEPT !.lastFile = FALSE,
                                              !.opened = Append(@, file)],
                                   Readable(file, d[file]), lastRun, off, cf)
              IN  IF st1.err \/ StopAfter(st1) THEN st1
                  ELSE ScanFiles(st1, Tail(files), d, lastRun, off, cf)

\* the check of line 349 dropped
NoNewBansNever(st) == FALSE

\* len(banIPs) == 0 (line 349)
NoNewBans(st) == Len(st.banIPs) = 0

\* the service of the i-th tuple taken from the other end of the accumulator
BatchDataCrossed(st) ==
    [i \in 1..Len(st.banDates) |->
        <<st.banDates[i], st.banIPs[i], st.services[Len(st.services) + 1 - i]>>]

\* lines 354-358: the tuples handed to the transport
BatchData(st) ==
    [i \in 1..Len(st.banDates) |-> <<st.banDates[i], st.banIPs[i], st.services[i]>>]

\* any answer taken as success
AckAlwaysOK(line) == TRUE

\* scanner.Text() != "1" (line 469), negated
AckOK(line) == line = "1"

\* lastRun taking a directory for a missing file
lastRunLenient(f) ==
    IF f.kind \in {"absent", "dir"} THEN [err |-> FALSE, t |-> DefaultTime]
    ELSE LET lastR == ParseRFC3339(f.text) IN
         IF lastR.ok THEN [err |-> FALSE, t |-> lastR.t]
         ELSE [err |-> TRUE, t |-> DefaultTime]

\* lastRun: [err, t]
lastRun(f) ==
    IF f.kind = "absent" THEN [err |-> FALSE, t |-> DefaultTime]
    ELSE IF f.kind = "dir" THEN [err |-> TRUE, t |-> DefaultTime]
    ELSE LET lastR == ParseRFC3339(f.text) IN
         IF lastR.ok THEN [err |-> FALSE, t |-> lastR.t]
         ELSE [err |-> TRUE, t |-> DefaultTime]

\* ------------------------------------------------------------ the process
Range(seq) == {seq[i] : i \in 1..Len(seq)}

\* processBans returns: its locals are gone
EndCycle(result) ==
    /\ outcome' = result
    /\ lastRunTime' = DefaultTime
    /\ offset' = 0
    /\ scan' = NoScan

\* main logging the error and waiting for the next tick
FailAndGoOn ==
    /\ EndCycle("Failed")
    /\ pc' = "wait"

\* return 0, err: main calls log.Fatal (lines 195-197, 202-204)
Fail ==
    /\ EndCycle("Failed")
    /\ pc' = "exit"

\* the scan of lines 262-346 as a cycle does it that finds the lastrun file
\* f and the log directory as it is, under the configuration cf and the
\* offset off
Scanned(f, cf, off) ==
    ScanFiles([NoScan EXCEPT !.current = lastRun(f).t],
              findLogFiles(ReadDir(DOMAIN dir), cf.logName).files,
              dir, lastRun(f).t, off, cf)

\* processBans from its entry to the end of the scan (lines 239-352), under
\* the configuration cf: resolve the files, load the last run, take the zone
\* offset, scan
Collect(cf) ==
    /\ ackLine' = "none"
    /\ wmBefore' = wmFile
    /\ stable' = TRUE
    /\ LET found == findLogFiles(ReadDir(DOMAIN dir), cf.logName)
           last == lastRun(wmFile)
       IN
       /\ resolved' = [access |-> dirOK, listing |-> ReadDir(DOMAIN dir),
                       err |-> ~dirOK \/ found.err,
                       files |-> IF dirOK THEN found.files ELSE << >>]
       /\ IF ~dirOK \/ found.err
          THEN /\ steps' = {"resolve"}
               /\ Fail
          ELSE IF last.err
          THEN /\ steps' = {"resolve", "load"}
               /\ Fail
          ELSE \E off \in site.zones :
               LET st == ScanFiles([NoScan EXCEPT !.current = last.t], found.files,
                                   dir, last.t, off, cf)
               IN
               /\ steps' = {"resolve", "load"} \cup
                           (IF st.opened = << >> THEN {} ELSE {"open"})
               /\ IF st.err THEN Fail
                  ELSE IF NoNewBans(st)
                  THEN /\ EndCycle("NoNewEvents")
                       /\ pc' = "wait"
                  ELSE /\ outcome' = "none"
                       /\ lastRunTime' = last.t
                       /\ offset' = off
                       /\ scan' = st
                       /\ pc' = "send"

\* main (lines 179-197): the configuration is loaded and the first cycle
\* runs; the supervisor starts the process again after it exited or crashed
Boot ==
    /\ pc \in {"off", "exit", "down"}
    /\ \E cf \in site.configs :
        /\ conf' = cf
        /\ Collect(cf)
    /\ UNCHANGED <<envVars, wmFile, faults, acked>>

\* the cycle started on a tick whether or not the last one has returned
TickAnyTime ==
    /\ pc \in {"wait", "send", "save", "write"}
    /\ Collect(conf)
    /\ UNCHANGED <<envVars, wmFile, faults, conf, acked>>

\* the ticker fires (lines 200-204)
Tick ==
    /\ pc = "wait"
    /\ Collect(conf)
    /\ UNCHANGED <<envVars, wmFile, faults, conf, acked>>

\* Send with the last run saved before the answer is looked at
SendSavesFirst ==
    /\ pc = "send"
    /\ steps' = steps \cup {"send"}
    /\ wmFile' = File(FormatRFC3339(scan.current))
    /\ \/ /\ faults < MaxFaults
          /\ faults' = faults + 1
          /\ ackLine' = "err"
          /\ Fail
          /\ UNCHANGED <<conf, acked>>
       \/ \E line \in AckLines :
            /\ line # "1" => faults < MaxFaults
            /\ faults' = IF line = "1" THEN faults ELSE faults + 1
            /\ ackLine' = line
            /\ acked' = IF line = "1"
                        THEN Append(acked, [ips |-> Range(scan.banIPs),
                                            reported |-> FALSE])
                        ELSE acked
            /\ IF AckOK(line)
               THEN /\ pc' = "save"
                    /\ UNCHANGED <<procVars, outcome>>
               ELSE /\ Fail
                    /\ UNCHANGED conf
    /\ UNCHANGED <<envVars, wmBefore, resolved, stable>>

\* processBans lines 354-472: the batch is posted and the answer read
Send ==
    /\ pc = "send"
    /\ steps' = steps \cup {"send"}
    /\ \/ \* the transport fails (client.Do returns an error)
          /\ faults < MaxFaults
          /\ faults' = faults + 1
          /\ ackLine' = "err"
          /\ Fail
          /\ UNCHANGED <<conf, acked>>
       \/ \* the collector answers
          \E line \in AckLines :
            /\ line # "1" => faults < MaxFaults
            /\ faults' = IF line = "1" THEN faults ELSE faults + 1
            /\ ackLine' = line
            /\ acked' = IF line = "1"
                        THEN Append(acked, [ips |-> Range(scan.banIPs),
                                            reported |-> FALSE])
                        ELSE acked
            /\ IF AckOK(line)
               THEN /\ pc' = "save"
                    /\ UNCHANGED <<procVars, outcome>>
               ELSE /\ Fail
                    /\ UNCHANGED conf
    /\ UNCHANGED <<envVars, wmFile, wmBefore, resolved, stable>>

\* saveRun lines 640-648: os.Create truncates the file, or fails
SaveCreate ==
    /\ pc = "save"
    /\ steps' = steps \cup {"save"}
    /\ \/ /\ faults < MaxFaults
          /\ faults' = faults + 1
          /\ Fail
          /\ UNCHANGED <<conf, wmFile>>
       \/ /\ wmFile' = File(<< >>)
          /\ pc' = "write"
          /\ UNCHANGED <<faults, procVars, outcome>>
    /\ UNCHANGED <<envVars, acked, ackLine, wmBefore, resolved, stable>>

\* saveRun lines 650-654 and processBans lines 477-482: the result of
\* WriteString is not looked at
SaveWrite ==
    /\ pc = "write"
    /\ \/ /\ wmFile' = File(FormatRFC3339(scan.current))
          /\ UNCHANGED faults
       \/ /\ faults < MaxFaults
          /\ faults' = faults + 1
          /\ UNCHANGED wmFile
    /\ acked' = [acked EXCEPT ![Len(acked)].reported = TRUE]
    /\ EndCycle("Reported")
    /\ pc' = "wait"
    /\ UNCHANGED <<envVars, conf, ackLine, steps, wmBefore, resolved, stable>>

\* the process is killed (or the host goes down) at any point
Crash ==
    /\ pc \in {"send", "save", "write", "wait"}
    /\ faults < MaxFaults
    /\ faults' = faults + 1
    /\ pc' = "down"
    /\ lastRunTime' = DefaultTime
    /\ offset' = 0
    /\ scan' = NoScan
    /\ UNCHANGED <<envVars, wmFile, conf, histVars>>

\* the reporting protocol: fail2ban writes, logrotate rotates, the process
\* cycles, the transport or the save may fail, the process may be killed
Next ==
    \/ WriteLine
    \/ Rotate
    \/ Boot
    \/ Tick
    \/ Send
    \/ SaveCreate
    \/ SaveWrite
    \/ Crash

Spec == Init /\ [][Next]_vars

\* the resolver on every kind of host
NextSites ==
    \/ WriteLine
    \/ Rotate
    \/ LockDir
    \/ Boot
    \/ Tick
    \/ Send
    \/ SaveCreate
    \/ SaveWrite

SpecSites == InitSites /\ [][NextSites]_vars

\* the normalizer under every policy and zone
NextNorm ==
    \/ WriteLine
    \/ Boot
    \/ Tick
    \/ Send
    \/ SaveCreate
    \/ SaveWrite

SpecNorm == InitNorm /\ [][NextNorm]_vars

\* the scan with unreadable files, corrupt streams and malformed timestamps
NextIO ==
    \/ WriteLine
    \/ WriteBadLine
    \/ Rotate
    \/ Damage
    \/ LockDir
    \/ Boot
    \/ Tick
    \/ Send
    \/ SaveCreate
    \/ SaveWrite

SpecIO == Init /\ [][NextIO]_vars

\* the cycle without faults, with rotation
NextScan ==
    \/ WriteLine
    \/ Rotate
    \/ Boot
    \/ Tick
    \/ Send
    \/ SaveCreate
    \/ SaveWrite

\* the watermark load on every kind of lastrun path
SpecLoad == InitLoad /\ [][NextScan]_vars

\* the scan around a stored watermark
SpecScan == InitScan /\ [][NextScan]_vars

\* the resolver on a host that keeps many rotated files
SpecSeq == InitSeq /\ [][NextScan]_vars

\* the batch built from records of both jails over rotated files
SpecBatch == InitBatch /\ [][NextScan]_vars

\* ----------------------------------------------------------------- claims
\* the time of the ban line with address ip, and the service it names
BanTime(ip) == ParseLocal(written[ip].date).t
BanLines == {i \in 1..Len(written) : written[i].kind = "ban"}
Batch == 1..Len(scan.banIPs)
Completed == {"Reported", "NoNewEvents"}
AckedIps == UNION {acked[k].ips : k \in 1..Len(acked)}

\* C1: in a cycle where the transport returns an error or an answer whose
\* first line is not "1", the cycle ends Failed (the process exits) and the
\* lastrun file is what it was when the cycle began.
C1_NoCommitOnFailure ==
    ackLine \notin {"none", "1"} =>
        /\ pc = "exit"
        /\ outcome = "Failed"
        /\ wmFile = wmBefore

\* a cycle that had a stored watermark was refused by the transport
C1_Witness ==
    /\ ackLine \in {"err", "0"}
    /\ outcome = "Failed"
    /\ wmBefore.kind = "file"

\* C2: the lastrun file changes only in the save that follows an answer of
\* "1" in the same cycle, and a watermark that can be read from it afterwards
\* is not before the one the cycle loaded.
C2_WatermarkMonotonic ==
    [][wmFile' # wmFile =>
         /\ ackLine = "1"
         /\ pc \in {"save", "write"}
         /\ ~lastRun(wmFile').err => lastRun(wmFile').t >= lastRun(wmBefore).t]_vars

\* a second Reported cycle moved a stored watermark forward
C2_Witness ==
    /\ outcome = "Reported"
    /\ wmBefore.kind = "file"
    /\ wmFile.kind = "file"
    /\ ~lastRun(wmFile).err
    /\ lastRun(wmFile).t > lastRun(wmBefore).t

\* C3: when a cycle ended Reported or NoNewEvents and the ticker starts the
\* next cycle against the log directory as that cycle found it, the next
\* cycle ends NoNewEvents, does not contact the transport and leaves the
\* lastrun file as it is.
C3_IdempotentRerun ==
    [][(Tick /\ outcome \in Completed /\ stable) =>
         /\ outcome' = "NoNewEvents"
         /\ "send" \notin steps'
         /\ pc' = "wait"
         /\ wmFile' = wmFile]_vars

\* C4: every record of the batch has a timestamp strictly after the
\* watermark loaded at the start of the cycle.
C4_BoundaryExact ==
    \A i \in Batch : BanTime(scan.banIPs[i]) > lastRunTime

\* a batch is about to be sent while the logs hold a ban stamped exactly
\* with the loaded watermark, which the batch leaves out
C4_Witness ==
    /\ pc = "send"
    /\ wmBefore.kind = "file"
    /\ \E i \in BanLines : BanTime(i) = lastRunTime /\ i \notin Range(scan.banIPs)

\* the logs are append-only with non-decreasing timestamps
Ordered ==
    \A i, j \in BanLines : i < j => BanTime(i) <= BanTime(j)

\* C5: with non-decreasing timestamps, once a cycle has ended Reported or
\* NoNewEvents, every ban line that was in the logs when it began is in a
\* batch the collector answered with "1".
C5_NoEventLoss ==
    (pc = "wait" /\ outcome \in Completed /\ stable /\ Ordered) =>
        \A i \in BanLines : i \in AckedIps

C7_RotationOrdering ==
    ("resolve" \in steps /\ ~resolved.err) =>
        LET matched == MatchedNames(resolved.listing, conf.logName)
            rest == [i \in 1..(Len(matched) - 1) |-> matched[Len(matched) + 1 - i]]
        IN  IF \E i \in 1..Len(matched) : matched[i].kind = "-"
            THEN resolved.files = <<BareName(conf.logName)>> \o rest
            ELSE resolved.files = matched

\* C8: when the directory cannot be listed or no name matches, the resolver
\* returns an error (a successful result is never empty), and the cycle ends
\* Failed having neither loaded the watermark, opened a log file nor
\* contacted the transport.
C8_EmptyDirectory ==
    "resolve" \in steps =>
        /\ (~resolved.access \/
            MatchedNames(resolved.listing, conf.logName) = << >>) =>
              /\ resolved.err
              /\ outcome = "Failed"
              /\ pc = "exit"
              /\ steps = {"resolve"}
              /\ wmFile = wmBefore
        /\ ~resolved.err => resolved.files # << >>

\* a cycle found the directory readable with no matching name
C8_Witness ==
    /\ "resolve" \in steps
    /\ resolved.access
    /\ resolved.listing # << >>
    /\ MatchedNames(resolved.listing, conf.logName) = << >>

\* C9: the service field of every record of the batch is "undisclosed" when
\* reporting is disabled; when enabled it is "undisclosed" iff the raw name
\* is in the suppressed list, and the raw name otherwise.
C9_ServiceSuppression ==
    \A i \in Batch :
        LET raw == written[scan.banIPs[i]].svc IN
        scan.services[i] =
            IF conf.reportServices = 0 \/ raw \in Range(conf.dontReport)
            THEN "undisclosed" ELSE raw

\* a batch under reporting enabled with a suppressed list holds a suppressed
\* and a verbatim service
C9_Witness ==
    /\ pc = "send"
    /\ conf.reportServices = 1
    /\ conf.dontReport # << >>
    /\ \E i, j \in Batch : /\ scan.services[i] = "undisclosed"
                           /\ scan.services[j] = "sshd"

\* C10: every emitted timestamp is the line's local second minus the zone
\* offset taken for the cycle, with the +0000 designator and no fraction.
C10_TimezoneCorrect ==
    \A i \in Batch :
        scan.banDates[i] = [sec |-> written[scan.banIPs[i]].date.sec - offset,
                            zone |-> "UTC+0000"]

\* a batch of two records, one with a fraction, under a non-zero offset
C10_Witness ==
    /\ pc = "send"
    /\ offset # 0
    /\ Len(scan.banIPs) >= 2
    /\ \E i \in Batch : written[scan.banIPs[i]].date.ms # 0

\* a step that starts a cycle, and the positions inside a cycle
Started == Boot \/ Tick
InCycle == {"send", "save", "write"}

\* C11: a cycle whose scan ends without error and retains no record ends
\* NoNewEvents in that step, with the process waiting for the next tick, the
\* transport not contacted and the lastrun file neither written nor created.
C11_NothingToDo ==
    [][(/\ Started
        /\ ~resolved'.err
        /\ ~lastRun(wmFile).err
        /\ ~Scanned(wmFile, conf', 0).err
        /\ Scanned(wmFile, conf', 0).banIPs = << >>) =>
         /\ outcome' = "NoNewEvents"
         /\ pc' = "wait"
         /\ "send" \notin steps'
         /\ "save" \notin steps'
         /\ wmFile' = wmFile]_vars

\* a scan over logs holding ban lines retained none
C11_Witness ==
    /\ outcome = "NoNewEvents"
    /\ "open" \in steps
    /\ BanLines # {}
    /\ stable

\* C12: after a cycle ended Failed the process has exited, and an exited
\* process starts no cycle and takes no step of one; after a cycle ended
\* NoNewEvents or Reported the process waits on the ticker unless it is
\* killed, and the only step a waiting process takes is the cycle of the
\* next tick.
C12_FailedIsFatal ==
    /\ [](outcome = "Failed" => pc = "exit")
    /\ [][pc = "exit" => ~(Tick \/ Send \/ SaveCreate \/ SaveWrite)]_vars
    /\ [](outcome \in Completed => pc \in {"wait", "down"})
    /\ [][(pc = "wait" /\ pc' # "down") =>
            (Tick \/ UNCHANGED <<pc, procVars, outcome, ackLine, steps, wmFile>>)]_vars

\* a cycle failed after an earlier one had ended Reported
C12_Witness ==
    /\ outcome = "Failed"
    /\ Len(acked) >= 1
    /\ acked[1].reported

\* C13: a cycle starts only when none is in progress, and the lastrun file
\* is changed only by the one cycle in progress.
C13_NoOverlap ==
    [][/\ Started => pc \notin InCycle
       /\ wmFile' # wmFile => (pc \in InCycle /\ ~Started)]_vars

\* a cycle started by the ticker is in progress
C13_Witness ==
    /\ pc \in InCycle
    /\ faults = 0
    /\ Len(acked) >= 1
    /\ acked[1].reported

\* the lastrun file holds something other than one time
Malformed(f) == f.kind = "file" /\ Len(f.text) # 1

\* C14: a cycle that found no lastrun file takes the sentinel time without
\* error and goes on to open the log files; a cycle that found a directory
\* or malformed content ends Failed before any log file is opened, with the
\* lastrun path left as it was.
C14_WatermarkLoad ==
    "load" \in steps =>
        /\ wmBefore.kind = "absent" =>
              /\ lastRun(wmBefore) = [err |-> FALSE, t |-> DefaultTime]
              /\ "open" \in steps
              /\ pc \in InCycle => lastRunTime = DefaultTime
        /\ (wmBefore.kind = "dir" \/ Malformed(wmBefore)) =>
              /\ outcome = "Failed"
              /\ pc = "exit"
              /\ steps = {"resolve", "load"}
              /\ wmFile = wmBefore

\* the cycle found a directory at the lastrun path while the logs hold a ban
C14_Witness ==
    /\ "load" \in steps
    /\ wmBefore.kind = "dir"
    /\ outcome = "Failed"
    /\ BanLines # {}

\* the last cycle built a batch and then ended Failed without an answer of
\* "1", or the process was killed before any answer
FailedAfterScan ==
    \/ outcome = "Failed" /\ "send" \in steps /\ ackLine \in {"err", "0"}
    \/ pc = "down" /\ outcome = "none" /\ ackLine = "none"

\* C15: when the last cycle failed after its scan without an answer of "1"
\* and the next cycle starts against the log directory as that cycle found
\* it, under the same configuration, the next cycle hands the transport the
\* batch that the scan of the failed cycle gives (from the lastrun file that
\* cycle loaded, with the same offset).
C15_RetryReproducesBatch ==
    [][(Started /\ FailedAfterScan /\ stable /\ conf' = conf) =>
         /\ pc' = "send"
         /\ BatchData(scan') = BatchData(Scanned(wmBefore, conf, offset'))]_vars

\* a cycle was refused by the transport and the logs are as it found them
C15_Witness ==
    /\ outcome = "Failed"
    /\ "send" \in steps
    /\ ackLine \in {"err", "0"}
    /\ stable
    /\ wmBefore.kind = "file"

\* something fails in the scan that a cycle does from the lastrun file f: an
\* open, a gzip header or a timestamp (the scan returns an error), or the
\* compressed stream of a file it reads breaks
ScanFailure(f, cf) ==
    LET st == Scanned(f, cf, 0) IN
    \/ st.err
    \/ \E n \in Range(st.opened) : IsGz(n) /\ dir[n].rd = "cut"

\* C16: a cycle in whose scan a file cannot be opened, a compressed stream is
\* corrupt at its header or further on, or a timestamp does not parse, ends
\* Failed in that step: nothing is handed to the transport and the lastrun
\* file is unchanged.
C16_ScanFailuresFatal ==
    [][(/\ Started
        /\ ~resolved'.err
        /\ ~lastRun(wmFile).err
        /\ ScanFailure(wmFile, conf')) =>
         /\ outcome' = "Failed"
         /\ pc' = "exit"
         /\ "send" \notin steps'
         /\ wmFile' = wmFile]_vars

\* C17: in a cycle whose scan ends without error, every ban line of every
\* file the scan opens whose time, to the millisecond, is after the loaded
\* watermark is in the batch of the cycle.
C17_NewRecordsRetained ==
    [][(/\ Started
        /\ ~resolved'.err
        /\ ~lastRun(wmFile).err
        /\ ~Scanned(wmFile, conf', 0).err) =>
         \A n \in Range(Scanned(wmFile, conf', 0).opened) :
           \A k \in 1..Len(dir[n].lines) :
             LET line == dir[n].lines[k] IN
             (line.kind = "ban" /\ ParseLocal(line.date).t > lastRun(wmFile).t) =>
                 /\ pc' = "send"
                 /\ line.ip \in Range(scan'.banIPs)]_vars

\* the file n holds a ban line stamped before the time wm
HasOld(n, wm) ==
    \E k \in 1..Len(dir[n].lines) :
        /\ dir[n].lines[k].kind = "ban"
        /\ ParseLocal(dir[n].lines[k].date).t < wm

\* C18: in a cycle whose scan ends without error, a file of the resolved
\* order is opened iff no file before it holds a ban line stamped before the
\* loaded watermark, and in a file that holds such a line every ban line
\* that follows it and is stamped after the watermark is in the batch.
C18_EarlyStop ==
    [][(/\ Started
        /\ ~resolved'.err
        /\ ~lastRun(wmFile).err
        /\ ~Scanned(wmFile, conf', 0).err) =>
         LET files == resolved'.files
             wm == lastRun(wmFile).t
             st == Scanned(wmFile, conf', 0)
         IN
         /\ \A i \in 1..Len(files) :
              files[i] \in Range(st.opened) <=>
                  \A j \in 1..(i - 1) : ~HasOld(files[j], wm)
         /\ \A n \in Range(st.opened) :
              \A k, m \in 1..Len(dir[n].lines) :
                LET old == dir[n].lines[k]
                    new == dir[n].lines[m]
                IN
                (/\ k < m
                 /\ old.kind = "ban" /\ ParseLocal(old.date).t < wm
                 /\ new.kind = "ban" /\ ParseLocal(new.date).t > wm) =>
                    /\ pc' = "send"
                    /\ new.ip \in Range(scan'.banIPs)]_vars

\* the ban lines of the file n
BansOf(n) == {dir[n].lines[k] : k \in {j \in 1..Len(dir[n].lines) :
                                           dir[n].lines[j].kind = "ban"}}

\* C19: in a cycle whose scan ends without error, a ban line stamped exactly
\* with the loaded watermark is not in the batch, and an opened file in which
\* every ban line at or before the watermark is stamped exactly with it does
\* not keep the next file of the resolved order from being opened.
C19_EqualDoesNotStop ==
    [][(/\ Started
        /\ ~resolved'.err
        /\ ~lastRun(wmFile).err
        /\ ~Scanned(wmFile, conf', 0).err) =>
         LET files == resolved'.files
             wm == lastRun(wmFile).t
             st == Scanned(wmFile, conf', 0)
         IN
         /\ \A i \in 1..(Len(files) - 1) :
              (/\ files[i] \in Range(st.opened)
               /\ \E b \in BansOf(files[i]) : ParseLocal(b.date).t = wm
               /\ \A b \in BansOf(files[i]) :
                    ParseLocal(b.date).t <= wm => ParseLocal(b.date).t = wm) =>
                  files[i + 1] \in Range(st.opened)
         /\ \A n \in Range(st.opened) :
              \A b \in BansOf(n) :
                (ParseLocal(b.date).t = wm /\ pc' = "send") =>
                    b.ip \notin Range(scan'.banIPs)]_vars

\* a batch is about to be sent from a second file, opened after a first one
\* that holds a ban stamped exactly with the stored watermark
C19_Witness ==
    /\ pc = "send"
    /\ stable
    /\ wmBefore.kind = "file"
    /\ Len(scan.opened) >= 2
    /\ \E b \in BansOf(scan.opened[1]) : ParseLocal(b.date).t = lastRunTime

\* the latest time among the records of the batch in hand
NewestInBatch ==
    LET times == {BanTime(ip) : ip \in Range(scan.banIPs)}
    IN  CHOOSE t \in times : \A u \in times : u <= t

\* C20: while a batch is in hand the watermark candidate is the latest time
\* among its records, and when the cycle ends Reported the lastrun file loads
\* without error as exactly that time.
C20_WatermarkCandidate ==
    /\ [](pc \in InCycle => scan.current = NewestInBatch)
    /\ [][SaveWrite =>
            /\ ~lastRun(wmFile').err
            /\ lastRun(wmFile').t = NewestInBatch]_vars

\* C21: when no matched name has a '-', the resolver returns every matched
\* name, the base file first and then the rotated files in ascending order
\* of their numeric suffix.
C21_SequentialOrder ==
    LET matched == MatchedNames(resolved.listing, conf.logName)
        files == resolved.files
    IN
    (/\ "resolve" \in steps
     /\ ~resolved.err
     /\ \A i \in 1..Len(matched) : matched[i].kind # "-") =>
        /\ Range(files) = Range(matched)
        /\ files[1] = BareName(conf.logName)
        /\ \A i, j \in 2..Len(files) :
             i < j => (files[i].kind = "." /\ files[i].n < files[j].n)

\* C22: when some matched name has a '-', the resolver returns the first
\* matched name followed by the other matched names reversed: each matched
\* name exactly once and no name that was not matched.
C22_DateKeepsMatched ==
    LET matched == MatchedNames(resolved.listing, conf.logName)
        files == resolved.files
    IN
    (/\ "resolve" \in steps
     /\ ~resolved.err
     /\ \E i \in 1..Len(matched) : matched[i].kind = "-") =>
        /\ files = <<matched[1]>> \o reverseStrSlice(Tail(matched))
        /\ matched[1] = BareName(conf.logName)
        /\ Range(files) = Range(matched)
        /\ \A i, j \in 1..Len(files) : files[i] = files[j] => i = j

\* C23: a save step that fails, at the creation of the watermark file or at
\* the write of the instant into it, ends the cycle Failed and the process
\* exits; the cycle does not end Reported.
C23_SaveFailureReported ==
    [][((SaveCreate \/ SaveWrite) /\ faults' # faults) =>
          (outcome' = "Failed" /\ pc' = "exit")]_vars

\* C24: however a cycle ends (completed, failed or killed, the middle of the
\* save included), the watermark file then holds what it held when the cycle
\* started or the complete new instant, and loading it fails only if loading
\* the file of before the cycle failed.
C24_WatermarkNeverCorrupted ==
    [][(pc \in InCycle /\ pc' \notin InCycle) =>
          /\ \/ wmFile' = wmBefore
             \/ wmFile' = File(FormatRFC3339(scan.current))
          /\ lastRun(wmFile').err => lastRun(wmBefore).err]_vars

\* the ban lines of the given files, file after file and in file order
RECURSIVE LinesOf(_)
LinesOf(files) ==
    IF files = << >> THEN << >>
    ELSE (IF Head(files) \in DOMAIN dir
          THEN SelectSeq(dir[Head(files)].lines, LAMBDA l : l.kind = "ban")
          ELSE << >>) \o LinesOf(Tail(files))

\* the batch holds its records in scan order: files in resolved order, lines
\* in file order
InScanOrder ==
    LET all == LinesOf(resolved.files)
        taken == SelectSeq(all, LAMBDA l : l.ip \in Range(scan.banIPs))
    IN  scan.banIPs = [i \in 1..Len(taken) |-> taken[i].ip]

\* the three accumulators have one length and the i-th tuple of the batch is
\* the timestamp, the address and the service of one log line
Aligned ==
    /\ Len(scan.banDates) = Len(scan.banIPs)
    /\ Len(scan.services) = Len(scan.banIPs)
    /\ Len(BatchData(scan)) = Len(scan.banIPs)
    /\ \A i \in Batch :
         LET ip == scan.banIPs[i]
             line == written[ip]
         IN  /\ line.kind = "ban" /\ line.ip = ip
             /\ BatchData(scan)[i] =
                  <<FormatUTC(ToUTC(ParseLocal(line.date).t, offset)), ip,
                    ServiceField(line.svc, conf.reportServices, conf.dontReport)>>

\* C25: the timestamp, address and service accumulators always have the same
\* length, the i-th tuple of the batch is made of the three fields of one
\* log record, and the records are in scan order (files in resolved order,
\* lines in file order).
C25_FieldsAligned ==
    /\ []Aligned
    /\ [][Started => InScanOrder']_vars

\* a batch of two records from two files, of different services and seconds
C25_Witness ==
    /\ pc = "send"
    /\ Len(scan.banIPs) = 2
    /\ Len(scan.opened) = 2
    /\ scan.banIPs[1] > scan.banIPs[2]
    /\ scan.services[1] # scan.services[2]
    /\ scan.banDates[1] # scan.banDates[2]

====
